---- MODULE Spec2Model ----
(***************************************************************************)
(* A model of the per-form acquisition pipeline of stratbox                *)
(* (macrobanks/cbr_forms): the retrying download, the per-form run over a  *)
(* list of dates with its scratch directory, the selection of the DBF      *)
(* table, the decoding of numeric fields and the evaluation of formulas.   *)
(***************************************************************************)
EXTENDS Integers, Sequences, FiniteSets, TLC

\* Python's None, and the absence of a value in general.
None == "None"

(***************************************************************************)
(* Bounds of the model.                                                    *)
(***************************************************************************)
MaxRetries == 2
MaxDates == 2
MaxRecs == 2

(***************************************************************************)
(* Configuration.                                                          *)
(***************************************************************************)
\* RunnerConfig.min_bytes_ok
MinBytesOk == 512

Forms == {"101", "102", "123", "135"}

(***************************************************************************)
(* What one requests.get can produce: a response (status, body length) or  *)
(* an exception raised by the request.                                     *)
(***************************************************************************)
Statuses == {"200", "204", "206", "404", "500"}
BodySizes == {0, MinBytesOk - 1, MinBytesOk}
RequestErrors == {"ConnectionError", "Timeout"}

\* The numbers of workers a caller may ask for.
WorkerCounts == {1, 4}

Outcomes ==
    [kind : {"response"}, status : Statuses, size : BodySizes, exc : {None}]
    \cup
    [kind : {"exception"}, status : {None}, size : {0}, exc : RequestErrors]

VARIABLES
    \* download_bytes
    dl_pc,          \* "idle", "loop", "done", "raised", "aborted"
    retries,        \* cfg.retries
    attempt,        \* the loop variable of download_bytes
    requests_made,  \* HTTP requests performed by the current call
    last_status,
    last_err,
    sleeps,         \* the waits of the current call, in units of backoff
    res,            \* the DownloadResult of the last completed call
    all_failed,     \* history: every attempt of the current call failed
    \* the run of one form
    form,
    formulas_present,  \* formulas_df has rows for this form and kind
    tool_on_host,      \* shutil.which finds unrar, 7z or 7zz
    n_dates,           \* len(dates)
    run_pc,
    i,                 \* index of the date being processed, 1-based
    work_dir,          \* "absent", "exists", "removed"
    out,               \* dates acquired so far (date_dbf_list / out_paths)
    rows,              \* dates whose rows are in the long table
    pending,           \* the exception travelling through the finally
    net_used,          \* history: an HTTP request was made in this run
    date_status,       \* history: what happened to each date
    abort_step,        \* history: the step whose exception ended the run
    workers,           \* the number of workers the caller asks for
    candidates_ok      \* every role of the LayoutCandidates has an alias

dlvars == <<dl_pc, retries, attempt, requests_made, last_status, last_err,
            sleeps, res, all_failed>>
run_cfg == <<workers, candidates_ok>>
runvars == <<form, formulas_present, tool_on_host, run_cfg, n_dates, run_pc, i,
             work_dir, out, rows, pending, net_used, date_status, abort_step>>

VARIABLES
    \* build_long on the records of one date
    eform,      \* the form whose build_long runs
    records,    \* the decoded records of the date, in decode order
    sect_col,   \* form 101: the table has a section column
    ap,         \* form 101: extra.get("a_p")
    expr,       \* the expression of the FormulaSpec
    ev_pc,      \* "ready", "done", "raised"
    out_rows,   \* the values of the rows emitted
    images      \* history: what each token contributed to the value

evalvars == <<eform, records, sect_col, ap, expr, ev_pc, out_rows, images>>

VARIABLES
    \* the selection of the DBF file
    selector,   \* "generic" (pick_dbf_and_layout) or "102" (_pick_102_dbf)
    cands,      \* generic: the form whose LayoutCandidates are used
    files,      \* the DBF files of the extracted directory, sorted
    pk_pc,      \* "scan", "picked", "raised"
    pk_k,       \* index of the file the loop is at
    best,       \* the best candidate so far: its score and index, 0 for none
    chosen,     \* the result: index of the returned file, 0 when none
    pk_err      \* the exception the selection raised

pickvars == <<selector, cands, files, pk_pc, pk_k, best, chosen, pk_err>>

VARIABLES
    \* the decoding of the fields of a table
    dec_pc,     \* "ready", "raised"
    dec_k,      \* number of fields decoded so far
    dec_type,   \* type of the last field: "N" or "I"
    dec_data,   \* bytes of the last field
    dec_value   \* what the parser returned for it

parsevars == <<dec_pc, dec_k, dec_type, dec_data, dec_value>>

VARIABLES
    \* the long table of two runs of one form over the same inputs
    lg_form,        \* the form
    date_dbf_list,  \* the dates acquired, in input order; empty: no records
    n_banks,        \* len(banks_df)
    n_formulas,     \* len(fdf)
    ex_dir,         \* the DBF files every archive holds
    runs            \* per run: pc, position in the list, last listing, rows

longvars == <<lg_form, date_dbf_list, n_banks, n_formulas, ex_dir, runs>>

VARIABLES
    \* the indicator order of one form
    io_form,          \* FORM of the module whose build_long runs
    formulas_df,      \* the rows of formulas.csv, in file order
    fdf,              \* get_formulas_for(formulas_df, form, kind)
    io_k,             \* position of the comprehension in fdf, 1-based
    indicator_order,
    io_pc             \* "start", "order", "returned", "raised"

ordervars == <<io_form, formulas_df, fdf, io_k, indicator_order, io_pc>>

VARIABLES
    \* get_providers
    _PROVIDERS,        \* the module global: NoProviders or a Providers
    plugin_loads,      \* _load_plugin_providers would return a Providers
    use_plugin,        \* STRATBOX_USE_PLUGIN is not "0", "false", "False"
    gp_calls,          \* calls of get_providers made so far
    built,             \* Providers objects built so far
    returned,          \* what the last call returned
    returned_before,   \* history: what the call before it returned
    last_forced,       \* history: the last call had force_reload
    reload_attempts    \* history: unforced later calls in a row, since the
                       \* last forced one, that tried to load the plugin

provvars == <<_PROVIDERS, plugin_loads, use_plugin, gp_calls, built,
              returned, returned_before, last_forced, reload_attempts>>

VARIABLES
    \* the two entry points that run the four forms one after another
    entry_point,       \* "api": run_all_forms_to_xlsx, "cli": main
    en_pc,             \* "forms", "returned", "raised"
    en_k,              \* position of the next form in the sequence
    ran,               \* how the run of each form so far ended
    export_attempted,  \* forms for which make_and_export_wide was called
    out_paths,         \* forms whose file was written
    warned,            \* cli: forms reported with "[WARN] ... failed"
    en_cause           \* what ended the entry point with an exception

entryvars == <<entry_point, en_pc, en_k, ran, export_attempted, out_paths, warned,
               en_cause>>

\* What the actions of one part leave alone.
OutsideRun == <<evalvars, pickvars, parsevars, longvars,
    ordervars,
    provvars,
    entryvars>>
OutsideEval == <<dlvars, runvars, pickvars, parsevars, longvars,
    ordervars,
    provvars,
    entryvars>>
OutsidePick == <<dlvars, runvars, evalvars, parsevars, longvars,
    ordervars,
    provvars,
    entryvars>>
OutsideParse == <<dlvars, runvars, evalvars, pickvars, longvars,
    ordervars,
    provvars,
    entryvars>>
OutsideLong == <<dlvars, runvars, evalvars, pickvars, parsevars,
    ordervars,
    provvars,
    entryvars>>
OutsideOrder == <<dlvars, runvars, evalvars, pickvars, parsevars, longvars,
    provvars,
    entryvars>>
OutsideProviders == <<dlvars, runvars, evalvars, pickvars, parsevars, longvars,
         ordervars,
    entryvars>>
OutsideEntry == <<dlvars, runvars, evalvars, pickvars, parsevars, longvars,
         ordervars,
         provvars>>

(***************************************************************************)
(* download_bytes                                                          *)
(***************************************************************************)
NoResult == [ok |-> FALSE, status_code |-> None, content |-> None,
             size |-> 0, error |-> "no call"]

\* range(retries + 1): the number of iterations of the loop.
AttemptsOneMore(r) == r + 2

Attempts(r) == r + 1

\* except Exception: every exception of the request is caught.
Caught(exc) == exc \in RequestErrors

\* The response is returned at once: status 200 and a body of min_bytes_ok.
Accepted(o) ==
    /\ o.kind = "response"
    /\ o.status = "200"
    /\ o.size >= MinBytesOk

\* The text stored in last_err by a failed attempt.
ErrorOf(o) ==
    IF o.kind = "exception" THEN o.exc
    ELSE IF o.status # "200" THEN "HTTP " \o o.status
    ELSE "Too small"

\* last_status is assigned only when the request returned a response.
StatusAfter(o, prev) == IF o.kind = "response" THEN o.status ELSE prev

\* The causes of a failed attempt the specification names.
Is2xx(s) == s \in {"200", "204", "206"}

FailedAttempt(o) ==
    \/ o.kind = "exception"
    \/ o.kind = "response" /\ ~Is2xx(o.status)
    \/ o.kind = "response" /\ o.size < MinBytesOk

\* A wait that does not grow with the attempt.
BackoffFlat(a) == 1

\* time.sleep(backoff * (attempt + 1)), in units of backoff
BackoffUnits(a) == a + 1

\* The entry of download_bytes: the locals before the loop.
DlEnter ==
    /\ dl_pc' = "loop"
    /\ attempt' = 0
    /\ requests_made' = 0
    /\ last_status' = None
    /\ last_err' = None
    /\ sleeps' = <<>>
    /\ all_failed' = TRUE
    /\ UNCHANGED <<retries, res>>

\* One iteration of the loop: the request, its classification, the wait,
\* and, after the last iteration, the failure result.
DlIterate(o) ==
    /\ dl_pc = "loop"
    /\ attempt < Attempts(retries)
    /\ requests_made' = requests_made + 1
    /\ all_failed' = (all_failed /\ FailedAttempt(o))
    /\ UNCHANGED retries
    /\ IF o.kind = "exception" /\ ~Caught(o.exc)
       THEN /\ dl_pc' = "raised"
            /\ UNCHANGED <<attempt, last_status, last_err, sleeps, res>>
       ELSE IF Accepted(o)
       THEN /\ dl_pc' = "done"
            /\ last_status' = o.status
            /\ res' = [ok |-> TRUE, status_code |-> o.status,
                       content |-> "bytes", size |-> o.size, error |-> None]
            /\ UNCHANGED <<attempt, last_err, sleeps>>
       ELSE /\ last_status' = StatusAfter(o, last_status)
            /\ last_err' = ErrorOf(o)
            /\ sleeps' = IF attempt < retries
                         THEN Append(sleeps, BackoffUnits(attempt))
                         ELSE sleeps
            /\ attempt' = attempt + 1
            /\ IF attempt + 1 < Attempts(retries)
               THEN /\ dl_pc' = "loop"
                    /\ UNCHANGED res
               ELSE /\ dl_pc' = "done"
                    /\ res' = [ok |-> FALSE,
                               status_code |-> StatusAfter(o, last_status),
                               content |-> None, size |-> 0,
                               error |-> ErrorOf(o)]

Download ==
    /\ run_pc = "fetch"
    /\ \E o \in Outcomes : DlIterate(o)
    /\ net_used' = TRUE
    /\ UNCHANGED <<form, formulas_present, tool_on_host, run_cfg, n_dates, run_pc, i,
                   work_dir, out, rows, pending, date_status, abort_step>>
    /\ UNCHANGED OutsideRun

(***************************************************************************)
(* The run of one form over the list of dates.                             *)
(*   101: form101.run (loop, then build_long inside the try)               *)
(*   102: form102.build_long (formulas first, then the loop)               *)
(*   123: run_dates_to_dbf_df, then form123.build_long                     *)
(*   135: form135.run                                                      *)
(***************************************************************************)
Dates == 1 .. n_dates

\* The steps that lie inside the try of the run.
TryBody == {"loop", "fetch", "extract", "pick", "decode", "build101"}

\* An exception raised inside the try: control goes to the finally.
Raise(step, exc) ==
    /\ run_pc' = "finally"
    /\ pending' = exc
    /\ abort_step' = step

\* An exception raised outside any try: the run ends at once.
RaiseOutside(step, exc) ==
    /\ run_pc' = "raised"
    /\ pending' = exc
    /\ abort_step' = step

Mark(d, what) == date_status' = [date_status EXCEPT ![d] = what]

\* make_workdir(prefix=...) followed by the entry of the try.
EnterTry ==
    /\ work_dir' = "exists"
    /\ run_pc' = "loop"
    /\ i' = 1

\* form101.run: the scratch directory is made before anything else.
Start101 ==
    /\ run_pc = "start" /\ form = "101" /\ workers = 1
    /\ EnterTry
    /\ UNCHANGED <<dlvars, form, formulas_present, tool_on_host, run_cfg, n_dates,
                   out, rows, pending, net_used, date_status, abort_step>>
    /\ UNCHANGED OutsideRun

\* form102.build_long: the formulas are filtered and checked first.
Start102 ==
    /\ run_pc = "start" /\ form = "102" /\ workers = 1
    /\ IF formulas_present
       THEN /\ EnterTry
            /\ UNCHANGED <<pending, abort_step>>
       ELSE /\ RaiseOutside("formulas", "RuntimeError")
            /\ UNCHANGED <<work_dir, i>>
    /\ UNCHANGED <<dlvars, form, formulas_present, tool_on_host, run_cfg, n_dates,
                   out, rows, net_used, date_status>>
    /\ UNCHANGED OutsideRun

\* form123.run calls run_dates_to_dbf_df, which makes the directory.
Start123 ==
    /\ run_pc = "start" /\ form = "123" /\ workers = 1
    /\ EnterTry
    /\ UNCHANGED <<dlvars, form, formulas_present, tool_on_host, run_cfg, n_dates,
                   out, rows, pending, net_used, date_status, abort_step>>
    /\ UNCHANGED OutsideRun

\* form135.run passes show_progress and progress_desc to
\* run_dates_to_dbf_df, which has no such parameters: TypeError at the call.
Start135 ==
    /\ run_pc = "start" /\ form = "135" /\ workers = 1
    /\ RaiseOutside("signature", "TypeError")
    /\ UNCHANGED <<dlvars, form, formulas_present, tool_on_host, run_cfg, n_dates, i,
                   work_dir, out, rows, net_used, date_status>>
    /\ UNCHANGED OutsideRun

\* No entry point, and no field of RunnerConfig, takes a number of workers:
\* a call that passes one ends with TypeError before anything is done.
StartWithWorkers ==
    /\ run_pc = "start" /\ workers # 1
    /\ RaiseOutside("workers", "TypeError")
    /\ UNCHANGED <<dlvars, form, formulas_present, tool_on_host, run_cfg, n_dates, i,
                   work_dir, out, rows, net_used, date_status>>
    /\ UNCHANGED OutsideRun

\* The head of the loop over the dates: the next date's download_bytes
\* call, or the code after the loop.
LoopHead ==
    /\ run_pc = "loop"
    /\ IF i <= n_dates
       THEN /\ run_pc' = "fetch"
            /\ DlEnter
            /\ UNCHANGED pending
       ELSE /\ run_pc' = IF form = "101" THEN "build101" ELSE "finally"
            /\ pending' = None
            /\ UNCHANGED dlvars
    /\ UNCHANGED <<form, formulas_present, tool_on_host, run_cfg, n_dates, i,
                   work_dir, out, rows, net_used, date_status, abort_step>>
    /\ UNCHANGED OutsideRun

\* if not res.ok or not res.content: continue; else the archive is written.
AfterFetch ==
    /\ run_pc = "fetch" /\ dl_pc = "done"
    /\ IF ~res.ok \/ res.content = None \/ res.size = 0
       THEN /\ run_pc' = "loop"
            /\ i' = i + 1
            /\ Mark(i, "fetch_failed")
       ELSE /\ run_pc' = "extract"
            /\ UNCHANGED <<i, date_status>>
    /\ dl_pc' = "idle"
    /\ UNCHANGED <<retries, attempt, requests_made, last_status, last_err,
                   sleeps, res, all_failed>>
    /\ UNCHANGED <<form, formulas_present, tool_on_host, run_cfg, n_dates, work_dir,
                   out, rows, pending, net_used, abort_step>>
    /\ UNCHANGED OutsideRun

\* _extract_rar: _pick_rar_tool raises when no tool is on the host; a
\* non-zero return code of the tool raises RuntimeError.
Extract(returncode_ok) ==
    /\ run_pc = "extract"
    /\ IF ~tool_on_host
       THEN /\ Raise("tool", "RuntimeError")
            /\ Mark(i, "tool_missing")
       ELSE IF ~returncode_ok
       THEN /\ Raise("extract", "RuntimeError")
            /\ Mark(i, "extract_failed")
       ELSE /\ run_pc' = "pick"
            /\ UNCHANGED <<pending, abort_step, date_status>>
    /\ UNCHANGED <<dlvars, form, formulas_present, tool_on_host, run_cfg, n_dates, i,
                   work_dir, out, rows, net_used>>
    /\ UNCHANGED OutsideRun

\* With an empty alias list for a role, next(..., None) is None for every
\* file and pick_dbf_and_layout skips them all; _pick_102_dbf has its own
\* field names and takes no candidates.
HasAliases == form = "102" \/ candidates_ok

\* pick_dbf_and_layout / _pick_102_dbf: a path, or FileNotFoundError or
\* RuntimeError.  In form 101 the path is appended and the loop goes on.
Pick(picked) ==
    /\ run_pc = "pick"
    /\ IF ~picked \/ ~HasAliases
       THEN /\ Raise("pick", "RuntimeError")
            /\ Mark(i, "pick_failed")
            /\ UNCHANGED <<i, out>>
       ELSE IF form = "101"
       THEN /\ run_pc' = "loop"
            /\ out' = Append(out, i)
            /\ i' = i + 1
            /\ Mark(i, "ok")
            /\ UNCHANGED <<pending, abort_step>>
       ELSE /\ run_pc' = "decode"
            /\ UNCHANGED <<i, out, pending, abort_step, date_status>>
    /\ UNCHANGED <<dlvars, form, formulas_present, tool_on_host, run_cfg, n_dates,
                   work_dir, rows, net_used>>
    /\ UNCHANGED OutsideRun

\* read_dbf_to_df (123) / _build_lookup_from_dbf and the rows of the date
\* (102): the table is read, or reading it raises.
Decode(decoded) ==
    /\ run_pc = "decode"
    /\ IF ~decoded
       THEN /\ Raise("decode", "ValueError")
            /\ Mark(i, "decode_failed")
            /\ UNCHANGED <<i, out, rows>>
       ELSE /\ run_pc' = "loop"
            /\ i' = i + 1
            /\ Mark(i, "ok")
            /\ out' = Append(out, i)
            /\ rows' = IF form = "102" THEN Append(rows, i) ELSE rows
            /\ UNCHANGED <<pending, abort_step>>
    /\ UNCHANGED <<dlvars, form, formulas_present, tool_on_host, run_cfg, n_dates,
                   work_dir, net_used>>
    /\ UNCHANGED OutsideRun

\* form101.build_long, called inside the try of form101.run.
Build101(decoded) ==
    /\ run_pc = "build101"
    /\ IF ~formulas_present
       THEN /\ Raise("formulas", "RuntimeError")
            /\ UNCHANGED rows
       ELSE IF ~decoded /\ out # <<>>
       THEN /\ Raise("decode", "ValueError")
            /\ UNCHANGED rows
       ELSE /\ run_pc' = "finally"
            /\ rows' = out
            /\ UNCHANGED <<pending, abort_step>>
    /\ UNCHANGED <<dlvars, form, formulas_present, tool_on_host, run_cfg, n_dates, i,
                   work_dir, out, net_used, date_status>>
    /\ UNCHANGED OutsideRun

\* form123.build_long, called after run_dates_to_dbf_df has returned.
Build123 ==
    /\ run_pc = "build123"
    /\ IF ~formulas_present
       THEN /\ RaiseOutside("formulas", "RuntimeError")
            /\ UNCHANGED rows
       ELSE /\ run_pc' = "returned"
            /\ rows' = out
            /\ UNCHANGED <<pending, abort_step>>
    /\ UNCHANGED <<dlvars, form, formulas_present, tool_on_host, run_cfg, n_dates, i,
                   work_dir, out, net_used, date_status>>
    /\ UNCHANGED OutsideRun

\* finally: shutil.rmtree(work_dir, ignore_errors=True).
WorkDirLeftOnError(exc) == IF exc = None THEN "removed" ELSE "exists"

WorkDirAfterFinally(exc) == "removed"

Finally ==
    /\ run_pc = "finally"
    /\ work_dir' = WorkDirAfterFinally(pending)
    /\ run_pc' = IF pending # None THEN "raised"
                 ELSE IF form = "123" THEN "build123"
                 ELSE "returned"
    /\ UNCHANGED <<dlvars, form, formulas_present, tool_on_host, run_cfg, n_dates, i,
                   out, rows, pending, net_used, date_status, abort_step>>
    /\ UNCHANGED OutsideRun

\* KeyboardInterrupt delivered while the try body runs: it is no Exception,
\* nothing catches it, and it leaves through the finally.
Interrupt ==
    /\ run_pc \in TryBody
    /\ Raise("interrupt", "KeyboardInterrupt")
    /\ dl_pc' = IF dl_pc = "loop" THEN "aborted" ELSE dl_pc
    /\ UNCHANGED <<retries, attempt, requests_made, last_status, last_err,
                   sleeps, res, all_failed>>
    /\ UNCHANGED <<form, formulas_present, tool_on_host, run_cfg, n_dates, i,
                   work_dir, out, rows, net_used, date_status>>
    /\ UNCHANGED OutsideRun

InitDownload ==
    /\ dl_pc = "idle"
    /\ attempt = 0
    /\ requests_made = 0
    /\ last_status = None
    /\ last_err = None
    /\ sleeps = <<>>
    /\ res = NoResult
    /\ all_failed = TRUE

InitRun ==
    /\ form \in Forms
    /\ formulas_present \in BOOLEAN
    /\ tool_on_host \in BOOLEAN
    /\ workers \in WorkerCounts
    /\ candidates_ok \in BOOLEAN
    /\ retries \in 0 .. MaxRetries
    /\ n_dates \in 1 .. MaxDates
    /\ run_pc = "start"
    /\ i = 1
    /\ work_dir = "absent"
    /\ out = <<>>
    /\ rows = <<>>
    /\ pending = None
    /\ net_used = FALSE
    /\ date_status = [d \in 1 .. n_dates |-> "pending"]
    /\ abort_step = None
    /\ InitDownload

NextRun ==
    \/ StartWithWorkers
    \/ Start101
    \/ Start102
    \/ Start123
    \/ Start135
    \/ LoopHead
    \/ Download
    \/ AfterFetch
    \/ \E rc \in BOOLEAN : Extract(rc)
    \/ \E p \in BOOLEAN : Pick(p)
    \/ \E d \in BOOLEAN : Decode(d)
    \/ \E d \in BOOLEAN : Build101(d)
    \/ Build123
    \/ Finally
    \/ Interrupt

Terminal == run_pc \in {"returned", "raised"}

(***************************************************************************)
(* Properties of the download and of the run.                              *)
(***************************************************************************)

\* C1: a download_bytes call in which every attempt fails (non-success
\* status, short body or an exception of the request) makes exactly
\* retries + 1 requests and returns a failure result (ok False, content
\* None); no exception of the request leaves download_bytes.
C1_RetryExhaustion ==
    /\ dl_pc # "raised"
    /\ (dl_pc = "done" /\ all_failed) =>
          /\ requests_made = retries + 1
          /\ res.ok = FALSE
          /\ res.content = None

C1_Witness ==
    /\ dl_pc = "done"
    /\ all_failed
    /\ retries = 2
    /\ requests_made = 3
    /\ res.ok = FALSE
    /\ res.error = "Timeout"
    /\ res.status_code = "500"

\* The dates whose status is ok, in list order.
RECURSIVE OkDates(_)
OkDates(d) ==
    IF d > n_dates THEN <<>>
    ELSE (IF date_status[d] = "ok" THEN <<d>> ELSE <<>>) \o OkDates(d + 1)

\* C2: a failure of one date in Fetch, in the extraction of the archive or
\* in table selection is caught and only that date is skipped: a run in
\* which nothing else went wrong returns, has processed every date and
\* holds the rows of the dates that succeeded.
C2_PerDateFailureSkipped ==
    (/\ Terminal
     /\ formulas_present /\ tool_on_host /\ candidates_ok
     /\ abort_step \in {None, "extract", "pick"}) =>
        /\ run_pc = "returned"
        /\ \A d \in Dates : date_status[d] # "pending"
        /\ rows = OkDates(1)

\* What the code does for a Fetch failure: the date is skipped, the later
\* dates are processed.
C2_FetchFailureReached ==
    /\ run_pc = "returned"
    /\ n_dates = 2
    /\ date_status[1] = "fetch_failed"
    /\ date_status[2] = "ok"
    /\ rows = <<2>>

\* C3: the scratch directory of a run is removed on every exit path:
\* after the run has returned or raised, no scratch directory is left,
\* and it exists only while the try of the run is being executed.
C3_ScratchRemoved ==
    /\ Terminal => work_dir # "exists"
    /\ work_dir = "exists" => run_pc \in TryBody \cup {"finally"}

C3_Witness ==
    /\ run_pc = "raised"
    /\ abort_step \in {"extract", "pick", "decode", "interrupt"}
    /\ net_used
    /\ work_dir = "removed"

\* C4: with no FormulaSpec for the form and kind (the host and the rest of
\* the configuration being in order), the run of each of the four forms
\* ends in a run-level error and makes no HTTP request.
C4_NoFormulasNoFetch ==
    (~formulas_present /\ tool_on_host /\ candidates_ok) =>
        /\ ~net_used
        /\ Terminal => run_pc = "raised"

\* C5: with no decompression tool on the host (the configuration being in
\* order), the run ends in a run-level error raised before the first
\* download of the first date.
C5_NoToolNoFetch ==
    (~tool_on_host /\ formulas_present /\ candidates_ok) =>
        /\ ~net_used
        /\ Terminal => run_pc = "raised"

\* C28: in a failure result of download_bytes, status_code and error tell
\* of the same, last attempt: the status of the response the error names,
\* and None when the last attempt ended in an exception of the request.
C28_StatusAndErrorOfLastAttempt ==
    (dl_pc = "done" /\ ~res.ok) =>
        /\ res.error \in RequestErrors => res.status_code = None
        /\ res.error = "Too small" => res.status_code = "200"
        /\ \A st \in Statuses :
               res.error = "HTTP " \o st => res.status_code = st

\* C18: a run asked to use 4 workers processes its dates and returns the
\* long rows that the run with 1 worker returns for the same dates: it ends
\* as the sequential run does, with the rows of the dates that succeeded in
\* list order.
C18_FourWorkersSameRows ==
    (/\ Terminal
     /\ workers = 4
     /\ form \in {"101", "102", "123"}
     /\ formulas_present /\ tool_on_host /\ candidates_ok) =>
        /\ run_pc = "returned"
        /\ rows = OkDates(1)

\* C19: every started Fetch step and every started Extract step of a date
\* eventually ends, in success or in a failure.
C19_FetchAndExtractEnd ==
    /\ (run_pc = "fetch") ~> (run_pc # "fetch")
    /\ (run_pc = "extract") ~> (run_pc # "extract")

\* C20: a LayoutCandidates with an empty alias list for a required role
\* (everything else being in order) ends the run with an error before any
\* HTTP request is made.
C20_EmptyAliasesNoFetch ==
    (/\ ~candidates_ok
     /\ form \in {"101", "123"}
     /\ workers = 1
     /\ formulas_present /\ tool_on_host) =>
        /\ ~net_used
        /\ Terminal => run_pc = "raised"

\* C11: download_bytes returns a response without further retry exactly
\* when its status is 2xx and its body has min_bytes bytes; every other
\* outcome is a failed attempt, retried while attempts remain.  So a call
\* that returned a failure has made retries + 1 requests, all of them
\* failed in this sense.
C11_AcceptsExactly2xxOfMinBytes ==
    dl_pc = "done" =>
        /\ res.ok => (Is2xx(res.status_code) /\ res.size >= MinBytesOk)
        /\ ~res.ok => (all_failed /\ requests_made = retries + 1)

FailureTags == {"HttpStatus", "TooSmall", "NetworkError", "Timeout"}

\* C12: the failure value of a failed fetch carries exactly one of the tags
\* HttpStatus, TooSmall, NetworkError, Timeout as its cause.
C12_FailureIsTagged ==
    (dl_pc = "done" /\ ~res.ok) => res.error \in FailureTags

\* C13: the k-th wait of a call follows the failed attempt k - 1 (0-based)
\* and lasts backoff * k; there is no wait before the first attempt, none
\* after a success and none after the last failed attempt, so that a call
\* sleeps at most retries times.
C13_BackoffBetweenAttemptsOnly ==
    dl_pc \in {"loop", "done"} =>
        /\ \A k \in DOMAIN sleeps : sleeps[k] = k
        /\ Len(sleeps) <= retries
        /\ requests_made = 0 => sleeps = <<>>
        /\ dl_pc = "loop" => Len(sleeps) = requests_made
        /\ dl_pc = "done" => Len(sleeps) = requests_made - 1

\* A call of two retries failed three times and slept 1 and 2 units.
C13_Witness ==
    /\ dl_pc = "done"
    /\ ~res.ok
    /\ retries = 2
    /\ requests_made = 3
    /\ sleeps = <<1, 2>>

(***************************************************************************)
(* Text.  A Python str is a sequence of one-character strings; a cell of   *)
(* the decoded table is None, a float NaN, or a value of which str() gives *)
(* the text s.                                                             *)
(***************************************************************************)
Null == [kind |-> "null", s |-> <<>>]
NaN == [kind |-> "nan", s |-> <<"n", "a", "n">>]
Cell(s) == [kind |-> "str", s |-> s]

DigitChars == {"0", "1", "2", "3", "4", "5", "6", "7", "8", "9"}
LetterChars == {"h", "H", "x", "X"}

IsDigit(c) == c \in DigitChars
IsSpace(c) == c = " "
IsAlnum(c) == c \in DigitChars \cup LetterChars
IsDigitOrDot(c) == c \in DigitChars \cup {"."}
NotSpace(c) == ~IsSpace(c)

\* "" if x is None else str(x)
StrOf(x) == IF x.kind = "null" THEN <<>> ELSE x.s

RECURSIVE LStrip(_)
LStrip(s) == IF s # <<>> /\ IsSpace(Head(s)) THEN LStrip(Tail(s)) ELSE s

RECURSIVE RStrip(_)
RStrip(s) ==
    IF s # <<>> /\ IsSpace(s[Len(s)])
    THEN RStrip(SubSeq(s, 1, Len(s) - 1)) ELSE s

\* str.strip()
Strip(s) == RStrip(LStrip(s))

\* str.replace(",", ".")
CommaToDot(s) == [k \in DOMAIN s |-> IF s[k] = "," THEN "." ELSE s[k]]

\* str.upper() on the letters of the model's alphabet
LowerLetters == <<"b", "h", "p", "q", "x">>
UpperLetters == <<"B", "H", "P", "Q", "X">>

\* str.upper() and str.lower() on the letters of the model
UpperChar(c) ==
    IF \E k \in DOMAIN LowerLetters : LowerLetters[k] = c
    THEN UpperLetters[CHOOSE k \in DOMAIN LowerLetters : LowerLetters[k] = c]
    ELSE c
Upper(s) == [k \in DOMAIN s |-> UpperChar(s[k])]

LowerChar(c) ==
    IF \E k \in DOMAIN UpperLetters : UpperLetters[k] = c
    THEN LowerLetters[CHOOSE k \in DOMAIN UpperLetters : UpperLetters[k] = c]
    ELSE c
Lower(s) == [k \in DOMAIN s |-> LowerChar(s[k])]

\* str.isdigit()
IsDigitStr(s) == s # <<>> /\ \A k \in DOMAIN s : IsDigit(s[k])

\* str(int(s)) of a string of digits: the leading zeros go.
RECURSIVE IntText(_)
IntText(s) ==
    IF Len(s) > 1 /\ Head(s) = "0" THEN IntText(Tail(s)) ELSE s

\* re.sub(r"\D+", "", "" if x is None else str(x))
_norm_regn(x) == SelectSeq(StrOf(x), IsDigit)

\* form102._norm_code
_norm_code_102(x) ==
    LET s == SelectSeq(Strip(StrOf(x)), NotSpace)
    IN IF IsDigitStr(s) THEN IntText(s) ELSE s

\* form101._norm_code
_norm_code_101(x) ==
    IF x.kind = "null" THEN <<>>
    ELSE SelectSeq(CommaToDot(Strip(x.s)), IsDigitOrDot)

\* form135._norm_code
_norm_code_135(x) == SelectSeq(Upper(Strip(StrOf(x))), NotSpace)

\* form123._norm_acc_to_int; the integer is held as its decimal text, -1
\* as "-1".
_norm_acc_to_int(x) ==
    LET s == SelectSeq(StrOf(x), IsDigit)
    IN IF s # <<>> THEN IntText(s) ELSE <<"-", "1">>

\* _value_to_str of forms 102 and 135, _to_value_str of form 101
_value_to_str(v) ==
    IF v.kind = "null" THEN <<"0">>
    ELSE IF v.kind = "nan" THEN <<"0">>
    ELSE LET s == CommaToDot(Strip(v.s))
         IN IF s # <<>> THEN s ELSE <<"0">>

\* form123._value_to_str
_value_to_str_123(v) ==
    IF v.kind = "null" THEN <<"0">>
    ELSE IF v.kind = "nan" THEN <<"0">>
    ELSE CommaToDot(Strip(v.s))

(***************************************************************************)
(* Tokens of a formula expression: re.findall with the pattern of each     *)
(* form.  chars is the character class of a code; fraction tells whether   *)
(* a code may continue with "." and more digits (form 101).                *)
(***************************************************************************)
RECURSIVE RunEnd(_, _, _)
RunEnd(s, pos, chars) ==
    IF pos < Len(s) /\ s[pos + 1] \in chars
    THEN RunEnd(s, pos + 1, chars) ELSE pos

RECURSIVE FindAll(_, _, _, _)
FindAll(s, pos, chars, fraction) ==
    IF pos > Len(s) THEN <<>>
    ELSE IF s[pos] \in chars
    THEN LET e1 == RunEnd(s, pos, chars)
             e == IF /\ fraction
                     /\ e1 + 2 <= Len(s)
                     /\ s[e1 + 1] = "."
                     /\ IsDigit(s[e1 + 2])
                  THEN RunEnd(s, e1 + 2, chars) ELSE e1
         IN <<SubSeq(s, pos, e)>> \o FindAll(s, e + 1, chars, fraction)
    ELSE IF s[pos] \in {"+", "-"}
    THEN <<<<s[pos]>>>> \o FindAll(s, pos + 1, chars, fraction)
    ELSE FindAll(s, pos + 1, chars, fraction)

\* r"[A-Za-zА-Яа-я0-9]+|[+]{1}|[-]{1}"
Tokens102(e) == FindAll(e, 1, DigitChars \cup LetterChars, FALSE)
\* r"\d+|[+]{1}|[-]{1}"
Tokens123(e) == FindAll(e, 1, DigitChars, FALSE)
\* r"\d+(?:\.\d+)?|[+]{1}|[-]{1}"
Tokens101(e) == FindAll(e, 1, DigitChars, TRUE)

Tokens(f, e) ==
    IF f = "102" THEN Tokens102(e)
    ELSE IF f = "123" THEN Tokens123(e)
    ELSE Tokens101(e)

IsOperator(t) == t \in {<<"+">>, <<"-">>}

(***************************************************************************)
(* Form 102: the lookup dictionary of _build_lookup_from_dbf.              *)
(***************************************************************************)
EmptyDict == [k \in {} |-> <<>>]

\* lookup[key] = val, whatever the dictionary holds.
InsertOverwrite(lookup, key, val) ==
    [k \in DOMAIN lookup \cup {key} |-> IF k = key THEN val ELSE lookup[k]]

\* if key not in lookup: lookup[key] = val
InsertFirst(lookup, key, val) ==
    IF key \in DOMAIN lookup THEN lookup
    ELSE [k \in DOMAIN lookup \cup {key} |->
             IF k = key THEN val ELSE lookup[k]]

\* dict.get(key, default)
Get(lookup, key, default) ==
    IF key \in DOMAIN lookup THEN lookup[key] ELSE default

RECURSIVE LookupFrom(_, _, _)
LookupFrom(recs, j, lookup) ==
    IF j > Len(recs) THEN lookup
    ELSE LET regn == _norm_regn(recs[j].regn)
             code == _norm_code_102(recs[j].code)
         IN IF regn = <<>> THEN LookupFrom(recs, j + 1, lookup)
            ELSE IF code = <<>> THEN LookupFrom(recs, j + 1, lookup)
            ELSE LookupFrom(recs, j + 1,
                     InsertFirst(lookup, <<regn, code>>,
                                 _value_to_str(recs[j].val)))

_build_lookup_from_dbf(recs) == LookupFrom(recs, 1, EmptyDict)

\* lookup.get((regn, _norm_code(t)), "0")
Value102(recs, regn_bank, t) ==
    Get(_build_lookup_from_dbf(recs),
        <<regn_bank, _norm_code_102(Cell(t))>>, <<"0">>)

(***************************************************************************)
(* Form 123: the rows of the bank are filtered for every token.            *)
(***************************************************************************)
Value123(recs, regn_bank, t) ==
    LET InBank(r) == _norm_regn(r.regn) = regn_bank
        sub == SelectSeq(recs, InBank)
        acc == IntText(t)
        HasAcc(r) == _norm_acc_to_int(r.code) = acc
        m == SelectSeq(sub, HasAcc)
    IN IF Len(m) > 0 THEN _value_to_str_123(m[1].val) ELSE <<"0">>

(***************************************************************************)
(* Form 101: _apply_ap_filter and _resolve_value_101.                      *)
(***************************************************************************)
\* str.lstrip("0") or "0"
RECURSIVE LStripZeros(_)
LStripZeros(s) ==
    IF s # <<>> /\ Head(s) = "0" THEN LStripZeros(Tail(s)) ELSE s

\* has_sect: the table has a section column (A_P, AP, ...).
_apply_ap_filter(df, has_sect, a_p) ==
    IF a_p.kind = "null" THEN df
    ELSE IF has_sect
    THEN LET InSection(r) == Strip(r.sect.s) = Strip(a_p.s)
         IN SelectSeq(df, InSection)
    ELSE df

_resolve_value_101(recs, has_sect, a_p, regn_bank, code) ==
    LET InBank(r) == _norm_regn(r.regn) = _norm_regn(Cell(regn_bank))
        df1 == SelectSeq(recs, InBank)
        df2 == _apply_ap_filter(df1, has_sect, a_p)
        c == _norm_code_101(Cell(code))
        HasC(r) == _norm_code_101(r.code) = c
        m1 == SelectSeq(df2, HasC)
        c2 == IF LStripZeros(c) # <<>> THEN LStripZeros(c) ELSE <<"0">>
        HasC2(r) == _norm_code_101(r.code) = c2
        m == IF Len(m1) = 0 THEN SelectSeq(df2, HasC2) ELSE m1
    IN IF Len(df1) = 0 THEN <<"0">>
       ELSE IF Len(df2) = 0 THEN <<"0">>
       ELSE IF Len(m) = 0 THEN <<"0">>
       ELSE _value_to_str(m[1].val)

\* build_long of form 101: "0" if the resolved text is blank, else stripped.
Value101(recs, has_sect, a_p, regn_bank, t) ==
    LET val == _resolve_value_101(recs, has_sect, a_p, regn_bank, t)
    IN IF Strip(val) = <<>> THEN <<"0">> ELSE Strip(val)

(***************************************************************************)
(* Form 135: the metric label and the per-bank dictionaries.               *)
(***************************************************************************)
Quote == "\""

RECURSIVE SkipSpaces(_, _)
SkipSpaces(s, pos) ==
    IF pos <= Len(s) /\ IsSpace(s[pos]) THEN SkipSpaces(s, pos + 1) ELSE pos

\* re.search(r'==\s*"(.*?)"', expr): the text between the first pair of
\* quotes that follows "==", or no match.
RECURSIVE SearchMetric(_, _)
SearchMetric(s, pos) ==
    IF pos + 1 > Len(s) THEN [found |-> FALSE, text |-> <<>>]
    ELSE LET q == SkipSpaces(s, pos + 2)
             closing == {r \in DOMAIN s : r > q /\ s[r] = Quote}
         IN IF /\ s[pos] = "=" /\ s[pos + 1] = "="
               /\ q <= Len(s) /\ s[q] = Quote
               /\ closing # {}
            THEN [found |-> TRUE,
                  text |-> SubSeq(s, q + 1,
                       (CHOOSE r \in closing : \A r2 \in closing : r <= r2) - 1)]
            ELSE SearchMetric(s, pos + 1)

\* The whole expression taken as the label.
WholeExprAsCode(e) == SelectSeq(Upper(e), NotSpace)

_parse_metric_code(e) ==
    LET m == SearchMetric(e, 1)
    IN IF ~m.found THEN <<>> ELSE _norm_code_135(Cell(m.text))

Key135(r) == <<_norm_regn(r.regn), _norm_code_135(r.code)>>

\* drop_duplicates(subset=["REGN_N", "CODE"], keep="first")
KeepAll(recs) == recs

drop_duplicates(recs) ==
    LET idx == {j \in DOMAIN recs :
                   \A j2 \in 1 .. j - 1 : Key135(recs[j2]) # Key135(recs[j])}
        RECURSIVE Pick135(_)
        Pick135(j) ==
            IF j > Len(recs) THEN <<>>
            ELSE (IF j \in idx THEN <<recs[j]>> ELSE <<>>) \o Pick135(j + 1)
    IN Pick135(1)

\* reg_map[regn] = dict(zip(codes, vals)): a later pair replaces an
\* earlier one with the same code.
RECURSIVE RegMapFrom(_, _, _)
RegMapFrom(d, j, reg_map) ==
    IF j > Len(d) THEN reg_map
    ELSE RegMapFrom(d, j + 1,
             InsertOverwrite(reg_map, Key135(d[j]), _value_to_str(d[j].val)))

Value135(recs, regn_bank, code) ==
    Get(RegMapFrom(drop_duplicates(recs), 1, EmptyDict),
        <<regn_bank, code>>, <<"0">>)

(***************************************************************************)
(* build_long: the value of one indicator of one bank on one date.         *)
(***************************************************************************)
\* banks: str(int(regn)) of the one bank of the model
BankRegn == <<"1">>

TokenValue(f, recs, sc, a, regn_bank, t) ==
    IF f = "102" THEN Value102(recs, regn_bank, t)
    ELSE IF f = "123" THEN Value123(recs, regn_bank, t)
    ELSE Value101(recs, sc, a, regn_bank, t)

\* A loop body that forgets the "-" tokens.
AccStepDropsMinus(acc, t, val) ==
    IF t = <<"+">> THEN acc \o t
    ELSE IF t = <<"-">> THEN acc
    ELSE acc \o val

\* if t in ["+", "-"]: acc += t; else: acc += <value of the code>
AccStep(acc, t, val) ==
    IF t \in {<<"+">>, <<"-">>} THEN acc \o t ELSE acc \o val

\* for t in tokens: ...
RECURSIVE FormulaLoop(_, _, _, _, _, _, _, _)
FormulaLoop(f, recs, sc, a, regn_bank, tokens, k, acc) ==
    IF k > Len(tokens) THEN acc
    ELSE FormulaLoop(f, recs, sc, a, regn_bank, tokens, k + 1,
             AccStep(acc, tokens[k],
                 IF IsOperator(tokens[k]) THEN <<>>
                 ELSE TokenValue(f, recs, sc, a, regn_bank, tokens[k])))

\* "Значение": "=" + acc
FormulaValue(f, recs, sc, a, regn_bank, e) ==
    <<"=">> \o FormulaLoop(f, recs, sc, a, regn_bank, Tokens(f, e), 1, <<>>)

TokenImages(f, recs, sc, a, regn_bank, e) ==
    LET tokens == Tokens(f, e)
    IN [k \in DOMAIN tokens |->
           IF IsOperator(tokens[k]) THEN tokens[k]
           ELSE TokenValue(f, recs, sc, a, regn_bank, tokens[k])]

EmitFormula(f) ==
    /\ out_rows' = <<FormulaValue(f, records, sect_col, ap, BankRegn, expr)>>
    /\ images' = TokenImages(f, records, sect_col, ap, BankRegn, expr)
    /\ ev_pc' = "done"

NoRows ==
    /\ out_rows' = <<>>
    /\ images' = <<>>
    /\ ev_pc' = "done"

\* form101.build_long; an empty table gives no rows for the date.
BuildLong101 ==
    /\ ev_pc = "ready" /\ eform = "101"
    /\ IF Len(records) = 0 THEN NoRows ELSE EmitFormula("101")
    /\ UNCHANGED <<eform, records, sect_col, ap, expr>>
    /\ UNCHANGED OutsideEval

\* form102.build_long, the rows of one date
BuildLong102 ==
    /\ ev_pc = "ready" /\ eform = "102"
    /\ EmitFormula("102")
    /\ UNCHANGED <<eform, records, sect_col, ap, expr>>
    /\ UNCHANGED OutsideEval

\* form123.build_long
BuildLong123 ==
    /\ ev_pc = "ready" /\ eform = "123"
    /\ EmitFormula("123")
    /\ UNCHANGED <<eform, records, sect_col, ap, expr>>
    /\ UNCHANGED OutsideEval

\* form135.build_long: a bad metric expression raises RuntimeError; an
\* empty table gives no rows; the value has no leading "=".
BuildLong135 ==
    /\ ev_pc = "ready" /\ eform = "135"
    /\ LET code == _parse_metric_code(expr)
       IN IF code = <<>>
          THEN /\ ev_pc' = "raised"
               /\ UNCHANGED <<out_rows, images>>
          ELSE IF Len(records) = 0 THEN NoRows
          ELSE /\ out_rows' = <<Value135(records, BankRegn, code)>>
               /\ images' = <<Value135(records, BankRegn, code)>>
               /\ ev_pc' = "done"
    /\ UNCHANGED <<eform, records, sect_col, ap, expr>>
    /\ UNCHANGED OutsideEval

(***************************************************************************)
(* The inputs of build_long the model draws from.                          *)
(***************************************************************************)
SeqsUpTo(S, n) == UNION {[1 .. m -> S] : m \in 0 .. n}

CodeCells(f) ==
    IF f = "135"
    THEN {Cell(<<"H", "4">>), Cell(<<"h", " ", "4">>), Cell(<<"H", "5">>)}
    ELSE {Cell(<<"4">>), Cell(<<"0", "4">>), Cell(<<"5">>)}

CoreRecords(f) ==
    IF f = "101"
    THEN [regn : {Cell(<<"1">>), Cell(<<"2">>)},
          code : CodeCells(f),
          sect : {Cell(<<"1">>), Cell(<<"2">>)},
          val : {Cell(<<"7">>), Cell(<<"8", ",", "5">>)}]
    ELSE [regn : {Cell(<<"1">>), Cell(<<" ", "1">>), Cell(<<"2">>)},
          code : CodeCells(f),
          sect : {Null},
          val : {Null, Cell(<<"7">>), Cell(<<"8", ",", "5">>)}]

\* One record of the bank whose value cell is absent or blank.
EdgeRecords(f) ==
    [regn : {Cell(<<"1">>)},
     code : {IF f = "135" THEN Cell(<<"H", "4">>) ELSE Cell(<<"4">>)},
     sect : {Cell(<<"1">>)},
     val : {Null, NaN, Cell(<<>>), Cell(<<" ">>), Cell(<<" ", "7", " ">>)}]

Rec(code, val) ==
    [regn |-> Cell(<<"1">>), code |-> Cell(code), sect |-> Cell(<<"1">>),
     val |-> Cell(val)]

\* The example of the specification: 401 -> 100, 402 -> 50, 403 -> 30.
ExampleRecords ==
    << Rec(<<"4", "0", "1">>, <<"1", "0", "0">>),
       Rec(<<"4", "0", "2">>, <<"5", "0">>),
       Rec(<<"4", "0", "3">>, <<"3", "0">>) >>

ExampleExpr == <<"4", "0", "1", "+", "4", "0", "2", "-", "4", "0", "3">>

RecordSeqs(f) ==
    SeqsUpTo(CoreRecords(f), MaxRecs)
    \cup {<<r>> : r \in EdgeRecords(f)}
    \cup {ExampleRecords}

Exprs(f) ==
    IF f = "135"
    THEN { <<"C", "=", "=", Quote, "h", "4", Quote>>,
           <<"=", "=", " ", Quote, "H", "5", Quote, "-", ">", Quote, "x", Quote>>,
           <<"=", "=", Quote, "h", "4">>,
           <<"=", "=", Quote, " ", Quote>>,
           <<"A", " ", "=", "=", Quote, " ", "h", " ", "4", Quote>> }
    ELSE IF f = "101"
    THEN { <<"4", "+", "5">>, <<"0", "4", "-", "4", ".", "5">>, ExampleExpr }
    ELSE { <<"4", "+", "5">>, <<"0", "4", "-", "x">>, <<"5", " ", "*", "4", ".", "5">>,
           ExampleExpr }

InitEval ==
    /\ eform \in Forms
    /\ records \in RecordSeqs(eform)
    /\ expr \in Exprs(eform)
    /\ sect_col \in (IF eform = "101" THEN BOOLEAN ELSE {FALSE})
    /\ ap \in (IF eform = "101"
               THEN {Null, Cell(<<"1">>), Cell(<<" ", "2">>)} ELSE {Null})
    /\ ev_pc = "ready"
    /\ out_rows = <<>>
    /\ images = <<>>

IdleEval ==
    /\ eform = "102"
    /\ records = <<>>
    /\ expr = <<>>
    /\ sect_col = FALSE
    /\ ap = Null
    /\ ev_pc = "off"
    /\ out_rows = <<>>
    /\ images = <<>>

IdleRun ==
    /\ form = "102"
    /\ formulas_present = TRUE
    /\ tool_on_host = TRUE
    /\ workers = 1
    /\ candidates_ok = TRUE
    /\ retries = 0
    /\ n_dates = 0
    /\ run_pc = "off"
    /\ i = 1
    /\ work_dir = "absent"
    /\ out = <<>>
    /\ rows = <<>>
    /\ pending = None
    /\ net_used = FALSE
    /\ date_status = <<>>
    /\ abort_step = None
    /\ InitDownload

NextEval ==
    \/ BuildLong101
    \/ BuildLong102
    \/ BuildLong123
    \/ BuildLong135

(***************************************************************************)
(* Properties of build_long.                                               *)
(***************************************************************************)
\* The normalized (registration number, code) key of a record.
KeyOf(f, r) ==
    << _norm_regn(r.regn),
       IF f = "102" THEN _norm_code_102(r.code)
       ELSE IF f = "123" THEN _norm_acc_to_int(r.code)
       ELSE IF f = "135" THEN _norm_code_135(r.code)
       ELSE _norm_code_101(r.code) >>

\* The key a code token (or the metric label) asks for.
KeyOfToken(f, t) ==
    << BankRegn,
       IF f = "102" THEN _norm_code_102(Cell(t))
       ELSE IF f = "123" THEN IntText(t)
       ELSE IF f = "135" THEN t
       ELSE _norm_code_101(Cell(t)) >>

ValueText(f, v) == IF f = "123" THEN _value_to_str_123(v) ELSE _value_to_str(v)

SameKey(f, recs, key) == {j \in DOMAIN recs : KeyOf(f, recs[j]) = key}

FirstOf(S) == CHOOSE j \in S : \A j2 \in S : j <= j2

\* The records a lookup of form 101 is made among: those of the requested
\* section when extra names one and the table has a section column.
InSection == {j \in DOMAIN records :
                 (eform = "101" /\ sect_col /\ ap.kind # "null")
                     => Strip(records[j].sect.s) = Strip(ap.s)}

\* The codes the emitted value was built from, with the position of the
\* image of each.
CodeTokens ==
    IF eform = "135" THEN {<<1, _parse_metric_code(expr)>>}
    ELSE {<<k, Tokens(eform, expr)[k]>> : k \in
             {k2 \in DOMAIN images : ~IsOperator(Tokens(eform, expr)[k2])}}

Emitted == ev_pc = "done" /\ out_rows # <<>>

\* C6 as stated: in all four forms, when two or more records have the same
\* normalized (registration number, code) key, the value used for the key is
\* that of the first of them in decode order.
C6_FirstRecordWins ==
    Emitted =>
        \A kt \in CodeTokens :
            LET same == SameKey(eform, records, KeyOfToken(eform, kt[2]))
            IN Cardinality(same) >= 2 =>
                   images[kt[1]] = ValueText(eform, records[FirstOf(same)].val)

\* C6 amended: of two or more records with one key, the first of those the
\* lookup is made among wins; in form 101 with a section filter these are
\* the records of the requested section, so that the key there is
\* (number, section, code), and in every other case all the records.
C6_FirstRecordInScopeWins ==
    Emitted =>
        \A kt \in CodeTokens :
            LET all == SameKey(eform, records, KeyOfToken(eform, kt[2]))
                same == all \cap InSection
            IN (Cardinality(all) >= 2 /\ same # {}) =>
                   images[kt[1]] = ValueText(eform, records[FirstOf(same)].val)

\* Two records of one key with different values were looked up, and the
\* first of the requested section is not the first of the table.
C6_Witness ==
    /\ Emitted
    /\ \E kt \in CodeTokens :
           LET all == SameKey(eform, records, KeyOfToken(eform, kt[2]))
               same == all \cap InSection
           IN /\ Cardinality(all) >= 2
              /\ same # {}
              /\ FirstOf(all) # FirstOf(same)
              /\ ValueText(eform, records[FirstOf(all)].val) # images[kt[1]]

RECURSIVE Flatten(_)
Flatten(ss) == IF ss = <<>> THEN <<>> ELSE Head(ss) \o Flatten(Tail(ss))

\* C7: the value of a formula is "=" followed by the images of the tokens
\* in token order, "+" and "-" unchanged and every code replaced by the
\* value looked up for it; 401+402-403 with 100, 50, 30 gives "=100+50-30".
C7_FormulaIsConcatenation ==
    (Emitted /\ eform # "135") =>
        LET tokens == Tokens(eform, expr)
        IN /\ Len(images) = Len(tokens)
           /\ \A k \in DOMAIN tokens :
                  IsOperator(tokens[k]) => images[k] = tokens[k]
           /\ out_rows[1] = <<"=">> \o Flatten(images)
           /\ (records = ExampleRecords /\ expr = ExampleExpr
                   /\ (eform = "101" /\ sect_col => ap \in {Null, Cell(<<"1">>)}))
                  => out_rows[1] = <<"=", "1", "0", "0", "+", "5", "0",
                                     "-", "3", "0">>

\* The example of C7 was evaluated.
C7_Witness ==
    /\ Emitted
    /\ eform = "123"
    /\ records = ExampleRecords
    /\ expr = ExampleExpr
    /\ out_rows = << <<"=", "1", "0", "0", "+", "5", "0", "-", "3", "0">> >>

Absent(v) == v.kind \in {"null", "nan"} \/ Strip(v.s) = <<>>

\* C8: in forms 101, 102 and 123 every code token contributes a non-empty
\* text, and exactly "0" when no record has its key or when the value of
\* the record used is None, NaN, empty or blank.
C8_CodeTokenNeverEmpty ==
    (Emitted /\ eform \in {"101", "102", "123"}) =>
        \A kt \in CodeTokens :
            LET same == SameKey(eform, records, KeyOfToken(eform, kt[2]))
                                \cap InSection
            IN /\ images[kt[1]] # <<>>
               /\ (same = {} /\ eform # "101") => images[kt[1]] = <<"0">>
               /\ (same # {} /\ Absent(records[FirstOf(same)].val))
                      => images[kt[1]] = <<"0">>

\* C14: in form 101 with a section in extra, a code is resolved from the
\* records of the bank in that section when there is one, and otherwise
\* from the first record of the bank with the code, whatever its section.
C14_SectionFallsBackToUnqualified ==
    (Emitted /\ eform = "101" /\ sect_col /\ ap.kind # "null") =>
        \A kt \in CodeTokens :
            LET all == SameKey(eform, records, KeyOfToken(eform, kt[2]))
                same == all \cap InSection
            IN all # {} =>
                   images[kt[1]] =
                       ValueText(eform,
                           records[IF same # {} THEN FirstOf(same)
                                   ELSE FirstOf(all)].val)

\* The label each metric expression of the model names: the text between
\* the first pair of quotes after "==", upper-cased and without spaces;
\* the empty text when there is no such pair or nothing in it.
LabelOf(e) ==
    IF e = <<"C", "=", "=", Quote, "h", "4", Quote>> THEN <<"H", "4">>
    ELSE IF e = <<"=", "=", " ", Quote, "H", "5", Quote, "-", ">",
                  Quote, "x", Quote>> THEN <<"H", "5">>
    ELSE IF e = <<"A", " ", "=", "=", Quote, " ", "h", " ", "4", Quote>>
    THEN <<"H", "4">>
    ELSE <<>>

MaxFiles == 2

\* The stems a directory may hold, in the order sorted() gives.
FileNames ==
    << <<"1", "2", "3", "B">>, <<"1", "3", "5", "_", "3">>, <<"a">>,
       <<"p", "1", "q">>, <<"q">> >>

FieldSets(sel) ==
    IF sel = "102"
    THEN { {"REGN", "CODE", "SIM_ITOGO"}, {"REGN", "CODE", "SIM_R"},
           {"CODE", "SIM_ITOGO"}, {"REGN", "CODE"}, {"REGN", "SIM_ITOG"},
           {"REGN", "NAME_B"}, {"NAME_B"} }
    ELSE { {"REGN", "C1", "C3"}, {"REGN", "NUM_SC", "IITG"},
           {"REGN", "C1_3", "C2_3"}, {"REGN", "SC", "VALUE"},
           {"REGN", "C1"}, {"C1", "C3"}, {"REGN", "IITG"}, {"REGN", "NAME_B"} }

DbfFiles(sel) ==
    [name : 1 .. Len(FileNames), fields : FieldSets(sel), readable : BOOLEAN]

\* sorted(...): the paths are distinct and in increasing order
Listings(sel) ==
    {fs \in SeqsUpTo(DbfFiles(sel), MaxFiles) :
        \A k \in 1 .. Len(fs) - 1 : fs[k].name < fs[k + 1].name}

\* sub in s
Contains(s, sub) ==
    \E k \in 0 .. Len(s) - Len(sub) : SubSeq(s, k + 1, k + Len(sub)) = sub

DEFAULT_CANDIDATES(f) ==
    IF f = "101"
    THEN [regn_candidates |-> <<"REGN">>,
          a_candidates |-> <<"NUM_SC">>,
          b_candidates |-> <<"IITG", "VITG">>]
    ELSE IF f = "123"
    THEN [regn_candidates |-> <<"REGN", "REG", "REG_NUM", "REGN_BNK">>,
          a_candidates |-> <<"C1", "C_1", "NUM_SC", "SC", "SCHET", "ACCOUNT",
                             "NOM_SCH", "NOMER">>,
          b_candidates |-> <<"C3", "C_3", "IITG", "SUM", "VALUE", "VAL", "C2",
                             "C_2">>]
    ELSE [regn_candidates |-> <<"REGN">>,
          a_candidates |-> <<"C1_3">>,
          b_candidates |-> <<"C2_3">>]

DEFAULT_PREFER(f) ==
    IF f = "101" THEN <<"1", "0", "1">>
    ELSE IF f = "123" THEN <<"1", "2", "3">>
    ELSE <<"1", "3", "5", "_", "3">>

\* next((fn[c] for c in candidates if c in fn), None)
FirstIn(candidates, fn) ==
    LET hits == {k \in DOMAIN candidates : candidates[k] \in fn}
    IN IF hits = {} THEN None
       ELSE candidates[CHOOSE k \in hits : \A k2 \in hits : k <= k2]

\* A score in which the hint counts less than the two field-name bonuses.
LayoutScoreWeakHint(stem, a_real, b_real, prefer) ==
    (IF Contains(Lower(stem), Lower(prefer)) THEN 5 ELSE 0)
    + (IF a_real \in {"C1", "C_1", "C1_3"} THEN 3 ELSE 0)
    + (IF b_real \in {"C3", "C_3", "C2_3"} THEN 3 ELSE 0)

\* The score pick_dbf_and_layout gives a file that has the three roles.
LayoutScore(stem, a_real, b_real, prefer) ==
    (IF Contains(Lower(stem), Lower(prefer)) THEN 10 ELSE 0)
    + (IF a_real \in {"C1", "C_1", "C1_3"} THEN 3 ELSE 0)
    + (IF b_real \in {"C3", "C_3", "C2_3"} THEN 3 ELSE 0)

has_val(fields_u) ==
    "SIM_ITOGO" \in fields_u \/ "SIM_ITOG" \in fields_u \/ "SIM_R" \in fields_u

\* The score _pick_102_dbf gives a file.
Score102(stem, fields_u) ==
    (IF "REGN" \in fields_u THEN 5 ELSE 0)
    + (IF "CODE" \in fields_u THEN 10 ELSE 0)
    + (IF has_val(fields_u) THEN 10 ELSE 0)
    + (IF Contains(Upper(stem), <<"P", "1">>) THEN 3 ELSE 0)
    + (IF Contains(Upper(stem), <<"Q">>) THEN 1 ELSE 0)
    - (IF "REGN" \in fields_u /\ "NAME_B" \in fields_u /\ "CODE" \notin fields_u
       THEN 20 ELSE 0)

\* A comparison in which a later file of equal score replaces the best.
BetterOrEqual(score, k) ==
    IF score >= best.score THEN [score |-> score, idx |-> k] ELSE best

Better(score, k) ==
    IF score > best.score THEN [score |-> score, idx |-> k] ELSE best

\* pick_dbf_and_layout: one iteration of "for p in dbfs"
PickDbfScan ==
    /\ pk_pc = "scan" /\ selector = "generic"
    /\ pk_k <= Len(files)
    /\ LET p == files[pk_k]
           c == DEFAULT_CANDIDATES(cands)
           regn_real == FirstIn(c.regn_candidates, p.fields)
           a_real == FirstIn(c.a_candidates, p.fields)
           b_real == FirstIn(c.b_candidates, p.fields)
           score == LayoutScore(FileNames[p.name], a_real, b_real,
                                DEFAULT_PREFER(cands))
       IN IF ~p.readable THEN UNCHANGED best
          ELSE IF regn_real = None \/ a_real = None \/ b_real = None
          THEN UNCHANGED best
          ELSE IF best.idx = 0 THEN best' = [score |-> score, idx |-> pk_k]
          ELSE best' = Better(score, pk_k)
    /\ pk_k' = pk_k + 1
    /\ UNCHANGED <<selector, cands, files, pk_pc, chosen, pk_err>>
    /\ UNCHANGED OutsidePick

\* pick_dbf_and_layout: no file at all, no file with the three roles (the
\* first file is opened again for the message), or the best file.
PickDbfReturn ==
    /\ pk_pc = "scan" /\ selector = "generic"
    /\ pk_k > Len(files)
    /\ IF Len(files) = 0
       THEN pk_pc' = "raised" /\ pk_err' = "FileNotFoundError" /\ chosen' = 0
       ELSE IF best.idx = 0
       THEN /\ pk_pc' = "raised"
            /\ pk_err' = IF files[1].readable THEN "RuntimeError"
                         ELSE "DBFError"
            /\ chosen' = 0
       ELSE pk_pc' = "picked" /\ pk_err' = None /\ chosen' = best.idx
    /\ UNCHANGED <<selector, cands, files, pk_k, best>>
    /\ UNCHANGED OutsidePick

\* _pick_102_dbf: one iteration of "for p in cands"
Pick102Scan ==
    /\ pk_pc = "scan" /\ selector = "102"
    /\ pk_k <= Len(files)
    /\ LET p == files[pk_k]
       IN IF ~p.readable THEN UNCHANGED best
          ELSE best' = Better(Score102(FileNames[p.name], p.fields), pk_k)
    /\ pk_k' = pk_k + 1
    /\ UNCHANGED <<selector, cands, files, pk_pc, chosen, pk_err>>
    /\ UNCHANGED OutsidePick

\* _pick_102_dbf: no file, no file above the floor, the check of the
\* chosen file for CODE and a value field, or the best file.
Pick102Return ==
    /\ pk_pc = "scan" /\ selector = "102"
    /\ pk_k > Len(files)
    /\ IF Len(files) = 0
       THEN pk_pc' = "raised" /\ pk_err' = "FileNotFoundError" /\ chosen' = 0
       ELSE IF best.idx = 0
       THEN pk_pc' = "raised" /\ pk_err' = "RuntimeError" /\ chosen' = 0
       ELSE IF "CODE" \notin files[best.idx].fields
               \/ ~has_val(files[best.idx].fields)
       THEN pk_pc' = "raised" /\ pk_err' = "RuntimeError" /\ chosen' = 0
       ELSE pk_pc' = "picked" /\ pk_err' = None /\ chosen' = best.idx
    /\ UNCHANGED <<selector, cands, files, pk_k, best>>
    /\ UNCHANGED OutsidePick

InitPick ==
    /\ selector \in {"generic", "102"}
    /\ cands \in (IF selector = "102" THEN {"102"} ELSE {"101", "123", "135"})
    /\ files \in Listings(selector)
    /\ pk_pc = "scan"
    /\ pk_k = 1
    /\ best = [score |-> IF selector = "102" THEN -10 ELSE 0, idx |-> 0]
    /\ chosen = 0
    /\ pk_err = None

NextPick ==
    \/ PickDbfScan
    \/ PickDbfReturn
    \/ Pick102Scan
    \/ Pick102Return

\* The roles a selection is made for: registration number, code, value.
HasAllRoles(sel, f, fields) ==
    IF sel = "102"
    THEN "REGN" \in fields /\ "CODE" \in fields /\ has_val(fields)
    ELSE /\ \E k \in DOMAIN DEFAULT_CANDIDATES(f).regn_candidates :
                DEFAULT_CANDIDATES(f).regn_candidates[k] \in fields
         /\ \E k \in DOMAIN DEFAULT_CANDIDATES(f).a_candidates :
                DEFAULT_CANDIDATES(f).a_candidates[k] \in fields
         /\ \E k \in DOMAIN DEFAULT_CANDIDATES(f).b_candidates :
                DEFAULT_CANDIDATES(f).b_candidates[k] \in fields

Complete(k) == files[k].readable /\ HasAllRoles(selector, cands, files[k].fields)

\* C9: neither selector returns a file that lacks a mandatory role, and when
\* a file with all the roles is there, a file with all the roles is what
\* the selection returns, whatever the names of the files.
C9_SelectedFileHasAllRoles ==
    /\ pk_pc = "picked" => Complete(chosen)
    /\ (pk_pc \in {"picked", "raised"} /\ \E k \in DOMAIN files : Complete(k))
           => pk_pc = "picked" /\ Complete(chosen)

\* The score of the k-th file of the listing, from the names of its fields
\* and its stem.
HasHint(k) == Contains(Lower(FileNames[files[k].name]), Lower(DEFAULT_PREFER(cands)))

CanonicalA(k) == \E c \in {"C1", "C_1", "C1_3"} :
    FirstIn(DEFAULT_CANDIDATES(cands).a_candidates, files[k].fields) = c

CanonicalB(k) == \E c \in {"C3", "C_3", "C2_3"} :
    FirstIn(DEFAULT_CANDIDATES(cands).b_candidates, files[k].fields) = c

ScoreOf(k) ==
    (IF HasHint(k) THEN 10 ELSE 0) + (IF CanonicalA(k) THEN 3 ELSE 0)
    + (IF CanonicalB(k) THEN 3 ELSE 0)

\* C24: among the readable files that have the three roles,
\* pick_dbf_and_layout returns one of the highest score, and of several
\* files of the highest score the first of the sorted listing.
C24_HighestScoreFirstListed ==
    (pk_pc = "picked" /\ selector = "generic") =>
        \A k \in DOMAIN files :
            Complete(k) =>
                /\ ScoreOf(k) <= ScoreOf(chosen)
                /\ ScoreOf(k) = ScoreOf(chosen) => chosen <= k

\* Two files with the roles and the same score: the first is returned.
C24_Witness ==
    /\ pk_pc = "picked" /\ selector = "generic"
    /\ Len(files) = 2
    /\ Complete(1) /\ Complete(2)
    /\ ScoreOf(1) = ScoreOf(2)
    /\ ScoreOf(1) > 0
    /\ chosen = 1

\* C26: when the directory holds files and none of them qualifies,
\* pick_dbf_and_layout ends with its selection-failure error (RuntimeError
\* naming the fields of a file), also when the first file of the listing
\* cannot be read.
C26_NoQualifyingFileIsSelectionFailure ==
    (/\ selector = "generic"
     /\ pk_pc \in {"picked", "raised"}
     /\ Len(files) > 0
     /\ ~ \E k \in DOMAIN files : Complete(k)) =>
        pk_pc = "raised" /\ pk_err = "RuntimeError"

\* C30: when a readable file with the three roles has the hint in its
\* stem, the file pick_dbf_and_layout returns has the hint in its stem.
C30_HintOutweighsFieldNames ==
    (/\ pk_pc = "picked" /\ selector = "generic"
     /\ \E k \in DOMAIN files : Complete(k) /\ HasHint(k)) =>
        HasHint(chosen)

\* A file with both field-name bonuses and no hint comes after a file with
\* the hint and neither bonus: the file with the hint is returned.
C30_Witness ==
    /\ pk_pc = "picked" /\ selector = "generic"
    /\ Len(files) = 2
    /\ Complete(1) /\ Complete(2)
    /\ HasHint(1) /\ ~CanonicalA(1) /\ ~CanonicalB(1)
    /\ ~HasHint(2) /\ CanonicalA(2) /\ CanonicalB(2)
    /\ chosen = 1

(***************************************************************************)
(* CBRFieldParser: parseN and parseI on the bytes of one field.            *)
(***************************************************************************)
MaxFieldLen == 3
MaxFields == 2

NUL == "NUL"
HighByte == "x80"
Bytes == {NUL, " ", "1", "2", "-", ",", ".", "A", HighByte}

FieldData == SeqsUpTo(Bytes, MaxFieldLen)

NotNUL(c) == c # NUL
IsAscii(c) == c # HighByte

Signed(s) == IF s # <<>> /\ Head(s) \in {"+", "-"} THEN Tail(s) ELSE s

\* int(s) succeeds: an optional sign and digits
IsIntText(s) == IsDigitStr(Signed(s))

\* float(s) succeeds: an optional sign, digits with at most one point
IsFloatText(s) ==
    LET body == Signed(s)
        IsPoint(c) == c = "."
    IN /\ \A k \in DOMAIN body : IsDigitOrDot(body[k])
       /\ Len(SelectSeq(body, IsPoint)) <= 1
       /\ \E k \in DOMAIN body : IsDigit(body[k])

NoValue == [kind |-> "None", s |-> <<>>]
Parsed(kind, s) == [kind |-> kind, s |-> s]
Raised(exc) == [kind |-> "raised", s |-> <<exc>>]

\* len(data) in (2, 4, 8)
IsBinaryLen(n) == n \in {2, 4, 8}

\* CBRFieldParser.parseN
parseN(data) ==
    LET cleaned == Strip(SelectSeq(data, NotNUL))
        s == Strip(CommaToDot(SelectSeq(cleaned, IsAscii)))
    IN IF cleaned = <<>> THEN NoValue
       ELSE IF IsIntText(cleaned) THEN Parsed("int", cleaned)
       ELSE IF IsFloatText(CommaToDot(cleaned))
       THEN Parsed("float", CommaToDot(cleaned))
       ELSE IF IsBinaryLen(Len(data)) THEN Parsed("from_bytes", data)
       ELSE IF s = <<>> THEN NoValue
       ELSE IF IsIntText(s) THEN Parsed("int", s)
       ELSE IF IsFloatText(s) THEN Parsed("float", s)
       ELSE Raised("ValueError")

\* CBRFieldParser.parseI; FieldParser.parseI unpacks exactly four bytes.
parseI(data) ==
    IF IsBinaryLen(Len(data)) THEN Parsed("from_bytes", data)
    ELSE IF Len(data) = 4 THEN Parsed("unpack", data)
    ELSE Raised("struct.error")

\* The table reader parses the next field of the record, here a field of
\* type N; an exception of the parser ends the read.
DecodeN ==
    /\ dec_pc = "ready"
    /\ dec_k < MaxFields
    /\ \E data \in FieldData :
           /\ dec_data' = data
           /\ dec_value' = parseN(data)
    /\ dec_type' = "N"
    /\ dec_pc' = IF dec_value'.kind = "raised" THEN "raised" ELSE "ready"
    /\ dec_k' = IF dec_value'.kind = "raised" THEN dec_k ELSE dec_k + 1
    /\ UNCHANGED OutsideParse

\* The same for a field of type I.
DecodeI ==
    /\ dec_pc = "ready"
    /\ dec_k < MaxFields
    /\ \E data \in FieldData :
           /\ dec_data' = data
           /\ dec_value' = parseI(data)
    /\ dec_type' = "I"
    /\ dec_pc' = IF dec_value'.kind = "raised" THEN "raised" ELSE "ready"
    /\ dec_k' = IF dec_value'.kind = "raised" THEN dec_k ELSE dec_k + 1
    /\ UNCHANGED OutsideParse

InitParse ==
    /\ dec_pc = "ready"
    /\ dec_k = 0
    /\ dec_type = "N"
    /\ dec_data = <<>>
    /\ dec_value = NoValue

NextParse == DecodeN \/ DecodeI

\* C10: decoding a numeric field does not raise, whatever its bytes: the
\* read goes on to the next field.
C10_NumericDecodeNeverRaises == dec_pc # "raised"

\* C25: a field of type N that was decoded without an exception is decoded
\* by the first strategy that succeeds: the integer of the text without
\* null bytes and surrounding whitespace; its decimal with ',' read as '.';
\* for a field of 2, 4 or 8 bytes, its little-endian integer (also when the
\* field holds only null bytes); otherwise the number left in its ASCII
\* characters, or absent when none is left.
C25_StrategiesInOrder ==
    (dec_type = "N" /\ dec_pc = "ready" /\ dec_k > 0) =>
        LET text == Strip(SelectSeq(dec_data, NotNUL))
        IN IF IsIntText(text) THEN dec_value = Parsed("int", text)
           ELSE IF IsFloatText(CommaToDot(text))
           THEN dec_value = Parsed("float", CommaToDot(text))
           ELSE IF IsBinaryLen(Len(dec_data))
           THEN dec_value = Parsed("from_bytes", dec_data)
           ELSE IF Strip(SelectSeq(text, IsAscii)) = <<>>
           THEN dec_value = NoValue
           ELSE dec_value.kind \in {"int", "float"}

(***************************************************************************)
(* The long table: for every acquired date the DBF file is chosen from the *)
(* sorted listing of the extracted directory, and build_long appends one   *)
(* row per bank and indicator.  Two runs over the same inputs are followed *)
(* side by side; what may differ between them is the order in which the    *)
(* file system lists the directory.  The value of a row stands for what    *)
(* is computed from the chosen file.                                       *)
(***************************************************************************)
MaxBanks == 2
MaxFormulas == 2

\* The files an archive may hold, by position in name order, and the score
\* of each: the first two tie.
ArchiveFiles == {1, 2, 3}
FileScore == <<10, 10, 0>>

Range(q) == {q[k] : k \in DOMAIN q}

\* The orders in which rglob may yield the files of a directory.
Listed(S) == {q \in [1 .. Cardinality(S) -> S] : Range(q) = S}

\* The listing as the file system gave it.
AsListed(q) == q

\* sorted(...)
sorted(q) ==
    CHOOSE t \in Listed(Range(q)) : \A k \in 1 .. Len(t) - 1 : t[k] < t[k + 1]

\* if best is None or cand[0] > best[0]: best = cand
RECURSIVE FirstBest(_, _, _)
FirstBest(dbfs, k, b) ==
    IF k > Len(dbfs) THEN b
    ELSE FirstBest(dbfs, k + 1,
             IF b = 0 THEN dbfs[k]
             ELSE IF FileScore[dbfs[k]] > FileScore[b] THEN dbfs[k] ELSE b)

\* for name, tokens in parsed: rows.append(...)
RECURSIVE IndicatorRows(_, _, _, _)
IndicatorRows(d, b, k, v) ==
    IF k > n_formulas THEN <<>>
    ELSE <<[date |-> d, bank |-> b, indicator |-> k, value |-> v]>>
         \o IndicatorRows(d, b, k + 1, v)

\* for bank_name, regn in banks: ...
RECURSIVE BankRows(_, _, _)
BankRows(d, b, v) ==
    IF b > n_banks THEN <<>>
    ELSE IndicatorRows(d, b, 1, v) \o BankRows(d, b + 1, v)

\* Forms 101 and 135: "if len(df) == 0: continue".
SkipsEmptyTable(f) == f \in {"101", "135"}

DateRows(f, entry, v) ==
    IF entry.empty /\ SkipsEmptyTable(f) THEN <<>>
    ELSE BankRows(entry.date, 1, v)

\* indicator_order = {row["name"]: i for i, row in fdf.iterrows()}
IndicatorOrder == [k \in 1 .. n_formulas |-> k - 1]

\* One iteration of the loop over the dates, in run r.
ProcessDate(r) ==
    /\ runs[r].pc = "loop"
    /\ runs[r].d <= Len(date_dbf_list)
    /\ \E globbed \in Listed(ex_dir) :
           runs' = [runs EXCEPT ![r] =
               [pc |-> "loop",
                d |-> @.d + 1,
                globbed |-> globbed,
                order |-> @.order,
                rows |-> @.rows \o
                    DateRows(lg_form, date_dbf_list[@.d],
                             FirstBest(sorted(globbed), 1, 0))]]
    /\ UNCHANGED <<lg_form, date_dbf_list, n_banks, n_formulas, ex_dir>>
    /\ UNCHANGED OutsideLong

\* return df_long, indicator_order
ReturnLong(r) ==
    /\ runs[r].pc = "loop"
    /\ runs[r].d > Len(date_dbf_list)
    /\ runs' = [runs EXCEPT ![r].pc = "returned",
                            ![r].order = IndicatorOrder]
    /\ UNCHANGED <<lg_form, date_dbf_list, n_banks, n_formulas, ex_dir>>
    /\ UNCHANGED OutsideLong

FirstRun == ProcessDate(1) \/ ReturnLong(1)

SecondRun == ProcessDate(2) \/ ReturnLong(2)

RunStart == [pc |-> "loop", d |-> 1, globbed |-> <<>>, order |-> <<>>,
             rows |-> <<>>]

InitLong ==
    /\ lg_form \in Forms
    /\ \E n \in 0 .. MaxDates :
           date_dbf_list \in {q \in [1 .. n -> [date : 1 .. n, empty : BOOLEAN]] :
                                 \A k \in 1 .. n : q[k].date = k}
    /\ n_banks \in 1 .. MaxBanks
    /\ n_formulas \in 1 .. MaxFormulas
    /\ ex_dir \in SUBSET ArchiveFiles \ {{}}
    /\ runs = [r \in {1, 2} |-> RunStart]

NextLong == FirstRun \/ SecondRun

IdleLong ==
    /\ lg_form = "102"
    /\ date_dbf_list = <<>>
    /\ n_banks = 1
    /\ n_formulas = 1
    /\ ex_dir = {}
    /\ runs = <<>>

\* C16: the long table of a run holds exactly one row for every acquired
\* date, bank and indicator, ordered by date, then bank, then indicator, so
\* that it has dates x banks x formulas rows.
C16_OneRowPerTriple ==
    runs[1].pc = "returned" =>
        /\ Len(runs[1].rows) = Len(date_dbf_list) * n_banks * n_formulas
        /\ \A j \in DOMAIN runs[1].rows :
               /\ runs[1].rows[j].date = ((j - 1) \div (n_banks * n_formulas)) + 1
               /\ runs[1].rows[j].bank =
                      (((j - 1) \div n_formulas) % n_banks) + 1
               /\ runs[1].rows[j].indicator = ((j - 1) % n_formulas) + 1

\* C17: two runs over the same dates, banks, formulas and archives return
\* the same rows in the same order, and the same indicator order.
C17_RunsAgree ==
    (runs[1].pc = "returned" /\ runs[2].pc = "returned") =>
        /\ runs[1].rows = runs[2].rows
        /\ runs[1].order = runs[2].order

\* Both runs returned rows, the directory having been listed in different
\* orders in the two.
C17_Witness ==
    /\ runs[1].pc = "returned" /\ runs[2].pc = "returned"
    /\ runs[1].rows # <<>>
    /\ Len(date_dbf_list) = 2
    /\ ex_dir = ArchiveFiles
    /\ runs[1].globbed = <<2, 3, 1>>
    /\ runs[2].globbed = <<3, 1, 2>>
    /\ runs[1].rows = runs[2].rows

(***************************************************************************)
(* The indicator order: get_formulas_for and the dictionary build_long     *)
(* makes of the names of the filtered rows.                                *)
(***************************************************************************)
MaxConfigRows == 3

ConfigRows == [form : {"123", "135"}, kind : {"formula", "metric"},
               name : {"A", "B"}]

\* kind="metric" for form 135, kind="formula" for the others
KindOf(f) == IF f = "135" THEN "metric" ELSE "formula"

\* df_formulas[form == f][kind == k].reset_index(drop=True)
get_formulas_for(df, f, k) ==
    LET Keep(row) == row.form = f /\ row.kind = k
    IN SelectSeq(df, Keep)

GetFormulasFor ==
    /\ io_pc = "start"
    /\ fdf' = get_formulas_for(formulas_df, io_form, KindOf(io_form))
    /\ io_pc' = IF Len(fdf') = 0 THEN "raised" ELSE "order"
    /\ UNCHANGED <<io_form, formulas_df, io_k, indicator_order>>
    /\ UNCHANGED OutsideOrder

\* {row["name"]: i for i, row in fdf.iterrows()}: one row
OrderStep ==
    /\ io_pc = "order"
    /\ io_k <= Len(fdf)
    /\ indicator_order' =
           InsertOverwrite(indicator_order, fdf[io_k].name, io_k - 1)
    /\ io_k' = io_k + 1
    /\ UNCHANGED <<io_form, formulas_df, fdf, io_pc>>
    /\ UNCHANGED OutsideOrder

\* return df_long, indicator_order
OrderReturn ==
    /\ io_pc = "order"
    /\ io_k > Len(fdf)
    /\ io_pc' = "returned"
    /\ UNCHANGED <<io_form, formulas_df, fdf, io_k, indicator_order>>
    /\ UNCHANGED OutsideOrder

InitOrder ==
    /\ io_form \in {"123", "135"}
    /\ formulas_df \in SeqsUpTo(ConfigRows, MaxConfigRows)
    /\ fdf = <<>>
    /\ io_k = 1
    /\ indicator_order = <<>>
    /\ io_pc = "start"

NextOrder == GetFormulasFor \/ OrderStep \/ OrderReturn

IdleOrder ==
    /\ io_form = "123"
    /\ formulas_df = <<>>
    /\ fdf = <<>>
    /\ io_k = 1
    /\ indicator_order = <<>>
    /\ io_pc = "off"

\* The names of the formulas of the form and kind, and the first position
\* (from 0) at which a name stands among them.
NamesOf(rows_of) == {rows_of[k].name : k \in DOMAIN rows_of}

FirstPosition(rows_of, n) ==
    (CHOOSE k \in DOMAIN rows_of :
        /\ rows_of[k].name = n
        /\ \A j \in 1 .. k - 1 : rows_of[j].name # n) - 1

ConfiguredHere == get_formulas_for(formulas_df, io_form, KindOf(io_form))

\* C23: the indicator order returned by a form run has one rank for every
\* indicator name of the form and kind, the position of the name among
\* these formulas counted from 0, and of two indicators the one that comes
\* earlier in the configuration has the strictly smaller rank.
C23_RankIsConfigurationPosition ==
    io_pc = "returned" =>
        /\ DOMAIN indicator_order = NamesOf(ConfiguredHere)
        /\ \A n \in NamesOf(ConfiguredHere) :
               indicator_order[n] = FirstPosition(ConfiguredHere, n)
        /\ \A n, m \in NamesOf(ConfiguredHere) :
               FirstPosition(ConfiguredHere, n) < FirstPosition(ConfiguredHere, m)
                   => indicator_order[n] < indicator_order[m]

(***************************************************************************)
(* runtime.get_providers and its module-level cache.  A Providers value is *)
(* its source and the number of the object, so that two objects of the     *)
(* same source differ.  Between calls the plugin may become loadable or    *)
(* stop being so, and STRATBOX_USE_PLUGIN may change.                      *)
(***************************************************************************)
MaxCalls == 4

NoProviders == [source |-> "None", id |-> 0]

Providers(source, n) == [source |-> source, id |-> n]

\* A cache that is never used.
CacheNever(p, force_reload) == FALSE

\* if _PROVIDERS is not None and not force_reload
CacheHit(p, force_reload) == p # NoProviders /\ ~force_reload

\* get_providers(force_reload)
GetProviders(force_reload) ==
    /\ gp_calls < MaxCalls
    /\ gp_calls' = gp_calls + 1
    /\ returned_before' = returned
    /\ last_forced' = force_reload
    /\ IF CacheHit(_PROVIDERS, force_reload)
       THEN IF _PROVIDERS.source = "local" /\ use_plugin
            THEN /\ reload_attempts' = reload_attempts + 1
                 /\ IF plugin_loads
                    THEN /\ _PROVIDERS' = Providers("plugin", built + 1)
                         /\ built' = built + 1
                    ELSE UNCHANGED <<_PROVIDERS, built>>
            ELSE UNCHANGED <<_PROVIDERS, built, reload_attempts>>
       ELSE /\ reload_attempts' = 0
            /\ built' = built + 1
            /\ _PROVIDERS' = IF use_plugin /\ plugin_loads
                             THEN Providers("plugin", built + 1)
                             ELSE Providers("local", built + 1)
    /\ returned' = _PROVIDERS'
    /\ UNCHANGED <<plugin_loads, use_plugin>>
    /\ UNCHANGED OutsideProviders

\* The plugin is installed, removed or repaired between two calls.
PluginChanges ==
    /\ gp_calls < MaxCalls
    /\ plugin_loads' = ~plugin_loads
    /\ UNCHANGED <<_PROVIDERS, use_plugin, gp_calls, built, returned,
                   returned_before, last_forced, reload_attempts>>
    /\ UNCHANGED OutsideProviders

\* os.environ["STRATBOX_USE_PLUGIN"] is changed between two calls.
EnvChanges ==
    /\ gp_calls < MaxCalls
    /\ use_plugin' = ~use_plugin
    /\ UNCHANGED <<_PROVIDERS, plugin_loads, gp_calls, built, returned,
                   returned_before, last_forced, reload_attempts>>
    /\ UNCHANGED OutsideProviders

InitProviders ==
    /\ _PROVIDERS = NoProviders
    /\ plugin_loads \in BOOLEAN
    /\ use_plugin \in BOOLEAN
    /\ gp_calls = 0
    /\ built = 0
    /\ returned = NoProviders
    /\ returned_before = NoProviders
    /\ last_forced = FALSE
    /\ reload_attempts = 0

NextProviders ==
    \/ \E force_reload \in BOOLEAN : GetProviders(force_reload)
    \/ PluginChanges
    \/ EnvChanges

IdleProviders ==
    /\ _PROVIDERS = NoProviders
    /\ plugin_loads = FALSE
    /\ use_plugin = FALSE
    /\ gp_calls = 0
    /\ built = 0
    /\ returned = NoProviders
    /\ returned_before = NoProviders
    /\ last_forced = FALSE
    /\ reload_attempts = 0

C27_ReloadAttemptedOnce == reload_attempts <= 1

(***************************************************************************)
(* The entry points over the four forms: api.run_all_forms_to_xlsx and     *)
(* run_all_forms.main with _run_one_form.  The run of a form is taken by   *)
(* its end: rows, an empty table, an exception (a subclass of Exception)   *)
(* or KeyboardInterrupt; the export by whether it raises.                  *)
(***************************************************************************)
FormsInOrder == <<"101", "102", "123", "135">>

\* The run functions whose signature has show_progress.
AcceptsShowProgress(f) == f \in {"102", "135"}

\* form135.run passes show_progress and progress_desc on to
\* run_dates_to_dbf_df, which takes neither: it always ends with TypeError.
RunEnds(f) ==
    IF f = "135" THEN {"Exception"}
    ELSE {"rows", "empty", "Exception", "KeyboardInterrupt"}

\* A try that catches nothing.
CatchesNothing(e) == FALSE

\* except Exception as e
CatchesException(e) == e = "Exception"

\* api: one iteration of "for i in it"; nothing is caught.
ApiRunForm ==
    /\ entry_point = "api" /\ en_pc = "forms"
    /\ en_k <= Len(FormsInOrder)
    /\ LET f == FormsInOrder[en_k]
       IN IF ~AcceptsShowProgress(f)
          THEN /\ ran' = Append(ran, "TypeError")
               /\ en_pc' = "raised"
               /\ en_cause' = "TypeError"
               /\ UNCHANGED <<en_k, export_attempted, out_paths>>
          ELSE \E e \in RunEnds(f), export_ok \in BOOLEAN :
               /\ ran' = Append(ran, e)
               /\ IF e \in {"Exception", "KeyboardInterrupt"}
                  THEN /\ en_pc' = "raised"
                       /\ en_cause' = e
                       /\ UNCHANGED <<en_k, export_attempted, out_paths>>
                  ELSE /\ export_attempted' = export_attempted \cup {f}
                       /\ IF export_ok
                          THEN /\ out_paths' = out_paths \cup {f}
                               /\ en_k' = en_k + 1
                               /\ UNCHANGED <<en_pc, en_cause>>
                          ELSE /\ en_pc' = "raised"
                               /\ en_cause' = "export"
                               /\ UNCHANGED <<en_k, out_paths>>
    /\ UNCHANGED <<entry_point, warned>>
    /\ UNCHANGED OutsideEntry

\* cli: one call of _run_one_form
CliRunOneForm ==
    /\ entry_point = "cli" /\ en_pc = "forms"
    /\ en_k <= Len(FormsInOrder)
    /\ LET f == FormsInOrder[en_k]
       IN \E e \in RunEnds(f), export_ok \in BOOLEAN :
          /\ ran' = Append(ran, e)
          /\ IF e \in {"Exception", "KeyboardInterrupt"}
             THEN IF CatchesException(e)
                  THEN /\ warned' = warned \cup {f}
                       /\ en_k' = en_k + 1
                       /\ UNCHANGED <<en_pc, en_cause, export_attempted,
                                      out_paths>>
                  ELSE /\ en_pc' = "raised"
                       /\ en_cause' = e
                       /\ UNCHANGED <<en_k, warned, export_attempted,
                                      out_paths>>
             ELSE IF e = "empty"
             THEN /\ en_k' = en_k + 1
                  /\ UNCHANGED <<en_pc, en_cause, warned, export_attempted,
                                 out_paths>>
             ELSE /\ export_attempted' = export_attempted \cup {f}
                  /\ UNCHANGED warned
                  /\ IF export_ok
                     THEN /\ out_paths' = out_paths \cup {f}
                          /\ en_k' = en_k + 1
                          /\ UNCHANGED <<en_pc, en_cause>>
                     ELSE /\ en_pc' = "raised"
                          /\ en_cause' = "export"
                          /\ UNCHANGED <<en_k, out_paths>>
    /\ UNCHANGED entry_point
    /\ UNCHANGED OutsideEntry

\* return out_paths / the end of main
EntryReturn ==
    /\ en_pc = "forms"
    /\ en_k > Len(FormsInOrder)
    /\ en_pc' = "returned"
    /\ UNCHANGED <<entry_point, en_k, ran, export_attempted, out_paths, warned,
                   en_cause>>
    /\ UNCHANGED OutsideEntry

InitEntry ==
    /\ entry_point \in {"api", "cli"}
    /\ en_pc = "forms"
    /\ en_k = 1
    /\ ran = <<>>
    /\ export_attempted = {}
    /\ out_paths = {}
    /\ warned = {}
    /\ en_cause = None

NextEntry == ApiRunForm \/ CliRunOneForm \/ EntryReturn

IdleEntry ==
    /\ entry_point = "cli"
    /\ en_pc = "off"
    /\ en_k = 1
    /\ ran = <<>>
    /\ export_attempted = {}
    /\ out_paths = {}
    /\ warned = {}
    /\ en_cause = None

\* The codes of the four forms.
FormCodes == {FormsInOrder[k] : k \in DOMAIN FormsInOrder}

\* C21: run_all_forms_to_xlsx runs the forms 101, 102, 123, 135 in this
\* order, every run function accepting the arguments it is given, and when
\* no run and no export fails it returns a path for each of the four codes.
C21_ApiRunsAndExportsAllForms ==
    entry_point = "api" =>
        /\ \A k \in DOMAIN ran : ran[k] # "TypeError"
        /\ en_pc = "returned" => out_paths = FormCodes
        /\ (en_pc = "raised" /\ \A k \in DOMAIN ran : ran[k] = "rows")
               => en_cause = "export"

\* C29: in the command-line runner an exception of the run of a form is
\* caught and reported and ends nothing; no export is attempted for that
\* form nor for a form whose long table is empty; every form whose run
\* returned rows is exported, and the forms after it are run in their turn.
C29_FormsIsolated ==
    entry_point = "cli" =>
        /\ \A k \in DOMAIN ran :
               /\ ran[k] = "Exception" =>
                      /\ FormsInOrder[k] \in warned
                      /\ FormsInOrder[k] \notin export_attempted
               /\ ran[k] = "empty" => FormsInOrder[k] \notin export_attempted
               /\ ran[k] = "rows" => FormsInOrder[k] \in export_attempted
        /\ en_cause # "Exception"
        /\ en_pc = "forms" => Len(ran) = en_k - 1
        /\ en_pc = "returned" =>
               /\ Len(ran) = Len(FormsInOrder)
               /\ \A k \in DOMAIN ran :
                      ran[k] = "rows" <=> FormsInOrder[k] \in out_paths

\* Form 101 failed, form 102 was empty, form 123 was exported, form 135
\* failed, and main came to its end.
C29_Witness ==
    /\ entry_point = "cli" /\ en_pc = "returned"
    /\ ran = <<"Exception", "empty", "rows", "Exception">>
    /\ warned = {"101", "135"}
    /\ out_paths = {"123"}

IdlePick ==
    /\ selector = "generic"
    /\ cands = "123"
    /\ files = <<>>
    /\ pk_pc = "off"
    /\ pk_k = 1
    /\ best = [score |-> 0, idx |-> 0]
    /\ chosen = 0
    /\ pk_err = None

IdleParse ==
    /\ dec_pc = "off"
    /\ dec_k = 0
    /\ dec_type = "N"
    /\ dec_data = <<>>
    /\ dec_value = NoValue

(***************************************************************************)
(* Specifications.                                                         *)
(***************************************************************************)
vars == <<dlvars, runvars, evalvars, pickvars, parsevars, longvars,
         ordervars,
         provvars,
         entryvars>>

\* The run of one form over its dates, with its downloads.
Init == InitRun /\ IdleEval /\ IdlePick /\ IdleParse /\ IdleLong
    /\ IdleOrder
    /\ IdleProviders
    /\ IdleEntry

Next == NextRun

Spec == Init /\ [][Next]_vars

\* The steps the program takes by itself.  requests.get is called with a
\* timeout, so a request ends; subprocess.run is called without one, so
\* the extraction ends only when the tool exits.
ProgramStep ==
    \/ StartWithWorkers
    \/ Start101
    \/ Start102
    \/ Start123
    \/ Start135
    \/ LoopHead
    \/ Download
    \/ AfterFetch
    \/ (~tool_on_host /\ Extract(TRUE))
    \/ \E p \in BOOLEAN : Pick(p)
    \/ \E d \in BOOLEAN : Decode(d)
    \/ \E d \in BOOLEAN : Build101(d)
    \/ Build123
    \/ Finally

SpecLive == Init /\ [][Next]_vars /\ WF_vars(ProgramStep)

\* build_long on the decoded records of one date.
EvalInit == InitEval /\ IdleRun /\ IdlePick /\ IdleParse /\ IdleLong
    /\ IdleOrder
    /\ IdleProviders
    /\ IdleEntry

SpecEval == EvalInit /\ [][NextEval]_vars

\* The selection of the DBF file of one extracted archive.
PickInit == InitPick /\ IdleRun /\ IdleEval /\ IdleParse /\ IdleLong
    /\ IdleOrder
    /\ IdleProviders
    /\ IdleEntry

SpecPick == PickInit /\ [][NextPick]_vars

\* The decoding of the fields of a table.
ParseInit == InitParse /\ IdleRun /\ IdleEval /\ IdlePick /\ IdleLong
    /\ IdleOrder
    /\ IdleProviders
    /\ IdleEntry

SpecParse == ParseInit /\ [][NextParse]_vars

\* Two runs of build_long over the same acquired dates.
LongInit == InitLong /\ IdleRun /\ IdleEval /\ IdlePick /\ IdleParse
    /\ IdleOrder
    /\ IdleProviders
    /\ IdleEntry

SpecLong == LongInit /\ [][NextLong]_vars

\* The indicator order of one form.
OrderInit == InitOrder /\ IdleEval /\ IdleRun /\ IdleLong /\ IdlePick
    /\ IdleParse
    /\ IdleProviders
    /\ IdleEntry

SpecOrder == OrderInit /\ [][NextOrder]_vars

\* The calls of get_providers of one process.
ProvidersInit == InitProviders /\ IdleEval /\ IdleRun /\ IdleLong /\ IdleOrder
    /\ IdlePick
    /\ IdleParse
    /\ IdleEntry

SpecProviders == ProvidersInit /\ [][NextProviders]_vars

\* The entry points that run the four forms.
EntryInit == InitEntry /\ IdleEval /\ IdleRun /\ IdleLong /\ IdleOrder
    /\ IdleProviders
    /\ IdlePick
    /\ IdleParse

SpecEntry == EntryInit /\ [][NextEntry]_vars

====
